---- MODULE Spec2Model ----
(***************************************************************************)
(* A model of charmhelpers/fetch/archiveurl.py: the helpers splituser and  *)
(* splitpasswd, and ArchiveUrlFetchHandler.can_handle, download, install.  *)
(*                                                                         *)
(* Representation.  A Python str that the code takes apart (a network      *)
(* location) is a sequence of one-character strings.  A URL is the tuple   *)
(* urlparse returns, as a record [proto, netloc, path, fragment]; params   *)
(* and query are empty in every URL drawn here.  A path is the sequence    *)
(* of its segments.  A fragment is the sequence of its key=value pairs in  *)
(* the order they are written.  Python's None is None (the empty tuple)    *)
(* and a value that may be None is Some(v).  The bytes a server returns    *)
(* are named by a content id; a digest written in a URL or passed as       *)
(* checksum is named by the content id whose digest it is.                 *)
(***************************************************************************)
EXTENDS Integers, Sequences, FiniteSets, TLC

\* Longest string handed to splituser / splitpasswd.
MaxHostLen == 4
\* Longest network location of a URL handed to download, the three of
\* DownloadNetlocs that are written out apart.
MaxNetlocLen == 2
\* Most key=value pairs in a URL fragment handed to install.
MaxPairs == 3

None == <<>>
Some(x) == <<x>>

SetMax(S) == CHOOSE x \in S : \A y \in S : y <= x
SetMin(S) == CHOOSE x \in S : \A y \in S : x <= y

\* The characters network locations are built from: a plain character and
\* the two delimiters.  No line break: urlparse removes them from a URL.
Chars == {"u", ":", "@"}
StringsUpTo(n) == UNION {[1..k -> Chars] : k \in 0..n}

(***************************************************************************)
(* splituser: the pattern is "anything, '@', anything", anchored at both   *)
(* ends.  The first group is greedy, so the match splits at the last '@'.  *)
(* No match returns (None, host).                                          *)
(***************************************************************************)
\* splituser with a first group that is not greedy: the split is at the
\* first '@'.
splituser_nongreedy(host) ==
    LET at == {i \in 1..Len(host) : host[i] = "@"} IN
    IF at # {}
    THEN <<Some(SubSeq(host, 1, SetMin(at) - 1)),
           Some(SubSeq(host, SetMin(at) + 1, Len(host)))>>
    ELSE <<None, Some(host)>>

splituser(host) ==
    LET at == {i \in 1..Len(host) : host[i] = "@"} IN
    IF at # {}
    THEN <<Some(SubSeq(host, 1, SetMax(at) - 1)),
           Some(SubSeq(host, SetMax(at) + 1, Len(host)))>>
    ELSE <<None, Some(host)>>

(***************************************************************************)
(* splitpasswd: the pattern is "anything without ':', ':', anything",      *)
(* anchored at both ends, with re.S.  The first group cannot hold a ':',   *)
(* so the match splits at the first ':'.  No match returns (user, None).   *)
(***************************************************************************)
splitpasswd(user) ==
    LET colon == {i \in 1..Len(user) : user[i] = ":"} IN
    IF colon # {}
    THEN <<Some(SubSeq(user, 1, SetMin(colon) - 1)),
           Some(SubSeq(user, SetMin(colon) + 1, Len(user)))>>
    ELSE <<Some(user), None>>


(***************************************************************************)
(* URLs, paths and contents.                                               *)
(***************************************************************************)
Url(proto, netloc, path, fragment) ==
    [proto |-> proto, netloc |-> netloc, path |-> path, fragment |-> fragment]

\* urlunparse((proto, netloc, path, params, query, fragment)).
urlunparse(proto, netloc, path, fragment) == Url(proto, netloc, path, fragment)

PathAX == <<"a", "x.tgz">>
PathBX == <<"b", "x.tgz">>
PathAY == <<"a", "y.tgz">>
PathAZ == <<"a", "z.txt">>
Paths == {PathAX, PathBX, PathAY}

\* os.path.basename of a URL path.
basename(path) == IF path = <<>> THEN "" ELSE path[Len(path)]

\* The bytes the remote end serves for a path: one content id per path.
Body(path) ==
    CASE path = PathAX -> "A"
      [] path = PathBX -> "B"
      [] path = PathAY -> "C"
      [] OTHER -> "Z"

\* What a path of the local filesystem holds: no file, a file that was
\* opened for writing and holds less than a whole body, or a whole body.
Absent == "absent"
Partial == "partial"
Files == {basename(q) : q \in Paths}

(***************************************************************************)
(* Exceptions: their class, the text they carry (reason for URLError,      *)
(* strerror for OSError) and the call that raised them.                    *)
(***************************************************************************)
Exc(type, reason, site) == [type |-> type, reason |-> reason, site |-> site]

UrlOpenErrors == {Exc("URLError", "unreachable", "urlopen")}
OpenErrors == {Exc("OSError", "EACCES", "open")}
ReadErrors == {Exc("OSError", "ECONNRESET", "read"),
               Exc("HTTPException", "IncompleteRead", "read"),
               Exc("KeyboardInterrupt", "", "read")}
WriteErrors == {Exc("OSError", "ENOSPC", "write")}
UnlinkErrors == {Exc("OSError", "EPERM", "unlink")}
UnlinkMissing == Exc("OSError", "ENOENT", "unlink")

(***************************************************************************)
(* Hashing.  hashlib.algorithms_available, and check_hash of               *)
(* charmhelpers.core.host: the digest of the file under the algorithm is   *)
(* compared with the expected digest; a missing file has no digest.        *)
(***************************************************************************)
algorithms_available == {"sha1", "md5"}
UnsupportedAlgorithms == {"crc32"}

check_hash(content, expected, hash_type) ==
    IF hash_type \notin algorithms_available
    THEN Some(Exc("UnsupportedAlgorithm", hash_type, "check_hash"))
    ELSE IF content \in {Absent, Partial} \/ content # expected
         THEN Some(Exc("IntegrityError", expected, "check_hash"))
         ELSE None

RECURSIVE values_of(_, _)
\* The non-blank values a fragment gives for key, in order.
values_of(key, fragment) ==
    IF fragment = <<>> THEN <<>>
    ELSE LET rest == values_of(key, Tail(fragment)) IN
         IF Head(fragment)[1] = key /\ Head(fragment)[2] # ""
         THEN <<Head(fragment)[2]>> \o rest
         ELSE rest

RECURSIVE keys_of(_, _)
\* The keys that have a non-blank value, in order of first appearance.
keys_of(fragment, seen) ==
    IF fragment = <<>> THEN <<>>
    ELSE LET k == Head(fragment)[1] IN
         IF Head(fragment)[2] = "" \/ k \in seen
         THEN keys_of(Tail(fragment), seen)
         ELSE <<k>> \o keys_of(Tail(fragment), seen \cup {k})

\* parse_qs(fragment): a dict, iterated in insertion order, from each key
\* to the list of its values; pairs with a blank value are dropped.
parse_qs(fragment) ==
    LET ks == keys_of(fragment, {}) IN
    [i \in 1..Len(ks) |-> <<ks[i], values_of(ks[i], fragment)>>]


(***************************************************************************)
(* State.                                                                  *)
(***************************************************************************)
Procs == {"t1", "t2"}

VARIABLES
    pc,          \* where each thread is in its call
    caller,      \* "install" or "direct": who called download
    src,         \* the call's source argument
    cksum,       \* install's checksum argument
    htype,       \* install's hash_type argument
    dldf,        \* install's dld_file, download's dest
    url,         \* download's local source, rewritten at line 86
    data,        \* what response.read() returned
    linked,      \* whether the file the thread holds open is still at dest
    caught,      \* the exception bound to e at line 99
    exc,         \* the exception propagating out of the call
    idx,         \* position of the loop of line 140 in options
    checks,      \* history: the check_hash calls made, with what they read
    extracted,   \* history: what the file held when extract was invoked
    opened,      \* history: the URL handed to urlopen
    openerSeen,  \* history: the opener installed when urlopen ran
    openerWas,   \* history: the opener installed when the call began
    overlapped,  \* history: the basenames fetched by calls in flight meanwhile
    dlExc,       \* history: the exception that left download
    opener,      \* the process-wide opener set by install_opener
    fs,          \* the files of $CHARM_DIR/fetched
    dest_dir,    \* whether $CHARM_DIR/fetched exists
    lastAuth,    \* history: the last source called with http(s) userinfo
    probeSrc,    \* the source can_handle was asked about
    probeRes,    \* what can_handle returned
    splitFn,     \* which of splituser, splitpasswd was applied
    splitArg,    \* its argument
    splitRes     \* its result

threadVars == <<pc, caller, src, cksum, htype, dldf, url, data, linked, caught,
                exc, idx, checks, extracted, opened, openerSeen, openerWas,
                overlapped, dlExc>>
worldVars == <<opener, fs, dest_dir, lastAuth>>
pureVars == <<probeSrc, probeRes, splitFn, splitArg, splitRes>>
vars == <<threadVars, worldVars, pureVars>>

NoUrl == Url("", <<>>, <<>>, <<>>)

InitThreads ==
    /\ pc = [p \in Procs |-> "idle"]
    /\ caller = [p \in Procs |-> "direct"]
    /\ src = [p \in Procs |-> NoUrl]
    /\ cksum = [p \in Procs |-> None]
    /\ htype = [p \in Procs |-> "sha1"]
    /\ dldf = [p \in Procs |-> ""]
    /\ url = [p \in Procs |-> NoUrl]
    /\ data = [p \in Procs |-> Absent]
    /\ linked = [p \in Procs |-> FALSE]
    /\ caught = [p \in Procs |-> None]
    /\ exc = [p \in Procs |-> None]
    /\ idx = [p \in Procs |-> 1]
    /\ checks = [p \in Procs |-> <<>>]
    /\ extracted = [p \in Procs |-> None]
    /\ opened = [p \in Procs |-> None]
    /\ openerSeen = [p \in Procs |-> None]
    /\ openerWas = [p \in Procs |-> None]
    /\ overlapped = [p \in Procs |-> {}]
    /\ dlExc = [p \in Procs |-> None]

InitPure ==
    /\ probeSrc = NoUrl
    /\ probeRes = None
    /\ splitFn = "none"
    /\ splitArg = <<>>
    /\ splitRes = <<None, None>>

\* After construction of the handler: no opener was installed and no file
\* was fetched; the directory may be there from an earlier run.
Init ==
    /\ InitThreads
    /\ InitPure
    /\ opener = None
    /\ fs = [f \in Files |-> Absent]
    /\ dest_dir \in BOOLEAN
    /\ lastAuth = None

InFlight(p) == pc[p] # "idle"

\* The per-call state a call starts from.
BeginCall(p, who, source, dest, checksum, hash_type) ==
    /\ pc' = [pc EXCEPT ![p] = "dl_parse"]
    /\ caller' = [caller EXCEPT ![p] = who]
    /\ src' = [src EXCEPT ![p] = source]
    /\ cksum' = [cksum EXCEPT ![p] = checksum]
    /\ htype' = [htype EXCEPT ![p] = hash_type]
    /\ dldf' = [dldf EXCEPT ![p] = dest]
    /\ url' = [url EXCEPT ![p] = source]
    /\ data' = [data EXCEPT ![p] = Absent]
    /\ linked' = [linked EXCEPT ![p] = FALSE]
    /\ caught' = [caught EXCEPT ![p] = None]
    /\ exc' = [exc EXCEPT ![p] = None]
    /\ idx' = [idx EXCEPT ![p] = 1]
    /\ checks' = [checks EXCEPT ![p] = <<>>]
    /\ extracted' = [extracted EXCEPT ![p] = None]
    /\ opened' = [opened EXCEPT ![p] = None]
    /\ openerSeen' = [openerSeen EXCEPT ![p] = None]
    /\ openerWas' = [openerWas EXCEPT ![p] = opener]
    /\ overlapped' = [q \in Procs |->
                        IF q = p
                        THEN {basename(src[r].path) : r \in {t \in Procs \ {p} : InFlight(t)}}
                        ELSE IF InFlight(q)
                             THEN overlapped[q] \cup {basename(source.path)}
                             ELSE overlapped[q]]
    /\ dlExc' = [dlExc EXCEPT ![p] = None]
    /\ lastAuth' = IF source.proto \in {"http", "https"}
                      /\ \E i \in 1..Len(source.netloc) : source.netloc[i] = "@"
                   THEN Some(source) ELSE lastAuth


(***************************************************************************)
(* download(source, dest)                                                  *)
(***************************************************************************)
\* The test of line 83 with ftp let in.
uses_basic_auth_ftp_too(proto) == proto \in {"http", "https", "ftp"}

\* Line 83: proto in ('http', 'https').
uses_basic_auth(proto) == proto \in {"http", "https"}

\* Lines 84-86: the URL that is opened, rebuilt without the userinfo when
\* splituser found one.
download_target(source) ==
    LET sp == splituser(source.netloc) IN
    IF uses_basic_auth(source.proto) /\ sp[1] # None
    THEN urlunparse(source.proto, sp[2][1], source.path, source.fragment)
    ELSE source

\* Lines 87-94 with an else branch that installs a plain opener.
opener_after_reset(source, old) ==
    LET sp == splituser(source.netloc) IN
    IF uses_basic_auth(source.proto) /\ sp[1] # None
    THEN LET up == splitpasswd(sp[1][1]) IN
         Some([uri |-> download_target(source), user |-> up[1], passwd |-> up[2]])
    ELSE None

\* Lines 87-94: the opener installed process-wide once the branch is done:
\* a password manager holding (None, source, username, password), when
\* splituser found a userinfo; the one that was installed, otherwise.
opener_after(source, old) ==
    LET sp == splituser(source.netloc) IN
    IF uses_basic_auth(source.proto) /\ sp[1] # None
    THEN LET up == splitpasswd(sp[1][1]) IN
         Some([uri |-> download_target(source), user |-> up[1], passwd |-> up[2]])
    ELSE old

\* Lines 82-94.
DlParse(p) ==
    /\ pc[p] = "dl_parse"
    /\ url' = [url EXCEPT ![p] = download_target(url[p])]
    /\ opener' = opener_after(url[p], opener)
    /\ pc' = [pc EXCEPT ![p] = "urlopen"]
    /\ UNCHANGED <<caller, src, cksum, htype, dldf, data, linked, caught, exc,
                   idx, checks, extracted, opened, openerSeen, openerWas,
                   overlapped, dlExc, fs, dest_dir, lastAuth, pureVars>>

\* Line 95: urlopen(source) returns a response or raises; nothing is
\* cleaned up when it raises.
UrlOpen(p) ==
    /\ pc[p] = "urlopen"
    /\ opened' = [opened EXCEPT ![p] = Some(url[p])]
    /\ openerSeen' = [openerSeen EXCEPT ![p] = opener]
    /\ \/ /\ pc' = [pc EXCEPT ![p] = "open_dest"]
          /\ exc' = exc
       \/ \E e \in UrlOpenErrors :
            /\ pc' = [pc EXCEPT ![p] = "dl_raised"]
            /\ exc' = [exc EXCEPT ![p] = Some(e)]
    /\ UNCHANGED <<caller, src, cksum, htype, dldf, url, data, linked, caught,
                   idx, checks, extracted, openerWas, overlapped, dlExc,
                   worldVars, pureVars>>

\* Line 97: open(dest, 'wb') creates the file or truncates it, or raises
\* and leaves what was there.  It cannot succeed in a missing directory.
OpenDest(p) ==
    /\ pc[p] = "open_dest"
    /\ \/ /\ dest_dir
          /\ fs' = [fs EXCEPT ![dldf[p]] = Partial]
          /\ linked' = [linked EXCEPT ![p] = TRUE]
          /\ pc' = [pc EXCEPT ![p] = "read"]
          /\ caught' = caught
       \/ \E e \in OpenErrors :
            /\ caught' = [caught EXCEPT ![p] = Some(e)]
            /\ pc' = [pc EXCEPT ![p] = "isfile"]
            /\ UNCHANGED <<fs, linked>>
    /\ UNCHANGED <<caller, src, cksum, htype, dldf, url, data, exc, idx, checks,
                   extracted, opened, openerSeen, openerWas, overlapped, dlExc,
                   opener, dest_dir, lastAuth, pureVars>>

\* Line 99: except Exception.  KeyboardInterrupt and the other classes
\* that derive from BaseException alone are not caught.
is_Exception(e) == e.type # "KeyboardInterrupt"

\* Line 98, response.read(): the whole body, or an exception, which the
\* handler of line 99 catches when it is an Exception.
ReadBody(p) ==
    /\ pc[p] = "read"
    /\ \/ /\ data' = [data EXCEPT ![p] = Body(url[p].path)]
          /\ pc' = [pc EXCEPT ![p] = "write"]
          /\ UNCHANGED <<caught, exc, linked>>
       \/ \E e \in ReadErrors :
            /\ IF is_Exception(e)
               THEN /\ caught' = [caught EXCEPT ![p] = Some(e)]
                    /\ pc' = [pc EXCEPT ![p] = "isfile"]
                    /\ UNCHANGED <<exc, linked>>
               ELSE /\ exc' = [exc EXCEPT ![p] = Some(e)]
                    /\ pc' = [pc EXCEPT ![p] = "dl_raised"]
                    /\ linked' = [linked EXCEPT ![p] = FALSE]
                    /\ caught' = caught
            /\ data' = data
    /\ UNCHANGED <<caller, src, cksum, htype, dldf, url, idx, checks,
                   extracted, opened, openerSeen, openerWas, overlapped, dlExc,
                   worldVars, pureVars>>

\* Line 98, dest_file.write(...), and the close that ends the with block.
\* The bytes go to the file that was opened: they show at dest unless that
\* file was unlinked meanwhile.
WriteBody(p) ==
    /\ pc[p] = "write"
    /\ \/ /\ fs' = IF linked[p] THEN [fs EXCEPT ![dldf[p]] = data[p]] ELSE fs
          /\ pc' = [pc EXCEPT ![p] = "dl_returned"]
          /\ caught' = caught
       \/ \E e \in WriteErrors :
            /\ fs' = IF linked[p] THEN [fs EXCEPT ![dldf[p]] = Partial] ELSE fs
            /\ caught' = [caught EXCEPT ![p] = Some(e)]
            /\ pc' = [pc EXCEPT ![p] = "isfile"]
    /\ linked' = [linked EXCEPT ![p] = FALSE]
    /\ UNCHANGED <<caller, src, cksum, htype, dldf, url, data, exc, idx, checks,
                   extracted, opened, openerSeen, openerWas, overlapped, dlExc,
                   opener, dest_dir, lastAuth, pureVars>>

\* Line 100: os.path.isfile(dest).
isfile(content) == content # Absent

\* A handler that re-raises without unlinking.
cleanup_skips_unlink(content) == FALSE

\* Lines 100-101: whether the handler goes on to os.unlink(dest).
cleanup_unlinks(content) == isfile(content)

\* Lines 99-100, and line 102 when there is no file: raise e.
IsFile(p) ==
    /\ pc[p] = "isfile"
    /\ IF cleanup_unlinks(fs[dldf[p]])
       THEN /\ pc' = [pc EXCEPT ![p] = "unlink"]
            /\ exc' = exc
       ELSE /\ pc' = [pc EXCEPT ![p] = "dl_raised"]
            /\ exc' = [exc EXCEPT ![p] = caught[p]]
    /\ linked' = [linked EXCEPT ![p] = FALSE]
    /\ UNCHANGED <<caller, src, cksum, htype, dldf, url, data, caught, idx,
                   checks, extracted, opened, openerSeen, openerWas, overlapped, dlExc,
                   worldVars, pureVars>>

\* Lines 101-102: os.unlink(dest), then raise e.  When os.unlink raises,
\* its exception leaves the handler instead, and the file stays.
Unlink(p) ==
    /\ pc[p] = "unlink"
    /\ pc' = [pc EXCEPT ![p] = "dl_raised"]
    /\ IF fs[dldf[p]] = Absent
       THEN /\ exc' = [exc EXCEPT ![p] = Some(UnlinkMissing)]
            /\ UNCHANGED <<fs, linked>>
       ELSE \/ /\ fs' = [fs EXCEPT ![dldf[p]] = Absent]
               /\ linked' = [q \in Procs |-> linked[q] /\ dldf[q] # dldf[p]]
               /\ exc' = [exc EXCEPT ![p] = caught[p]]
            \/ \E e \in UnlinkErrors :
                 /\ exc' = [exc EXCEPT ![p] = Some(e)]
                 /\ UNCHANGED <<fs, linked>>
    /\ UNCHANGED <<caller, src, cksum, htype, dldf, url, data, caught, idx,
                   checks, extracted, opened, openerSeen, openerWas, overlapped,
                   dlExc, opener, dest_dir, lastAuth, pureVars>>


\* Lines 135-138 without the except OSError clause.
reraised_only_urlerror(e) ==
    IF e.type = "URLError" THEN Exc("UnhandledSource", e.reason, "install") ELSE e

\* Lines 135-138: URLError is re-raised as UnhandledSource(e.reason), any
\* other OSError as UnhandledSource(e.strerror); anything else passes.
reraised(e) ==
    IF e.type \in {"URLError", "OSError"}
    THEN Exc("UnhandledSource", e.reason, "install")
    ELSE e

\* download's caller, reached by an exception: the code that called it
\* directly, or install's except clauses.
DownloadRaise(p) ==
    /\ pc[p] = "dl_raised"
    /\ dlExc' = [dlExc EXCEPT ![p] = exc[p]]
    /\ exc' = [exc EXCEPT ![p] =
                  IF caller[p] = "install" THEN Some(reraised(exc[p][1])) ELSE exc[p]]
    /\ pc' = [pc EXCEPT ![p] = "raised"]
    /\ UNCHANGED <<caller, src, cksum, htype, dldf, url, data, linked, caught,
                   idx, checks, extracted, opened, openerSeen, openerWas,
                   overlapped, worldVars, pureVars>>

\* download returns: to the code that called it directly, or to line 139
\* of install, where the loop over options starts.
DownloadReturn(p) ==
    /\ pc[p] = "dl_returned"
    /\ pc' = [pc EXCEPT ![p] = IF caller[p] = "install" THEN "loop" ELSE "returned"]
    /\ UNCHANGED <<caller, src, cksum, htype, dldf, url, data, linked, caught,
                   exc, idx, checks, extracted, opened, openerSeen, openerWas,
                   overlapped, dlExc, worldVars, pureVars>>

(***************************************************************************)
(* install(source, dest, checksum, hash_type)                              *)
(***************************************************************************)
Check(origin, alg, expected, content, result) ==
    [origin |-> origin, alg |-> alg, expected |-> expected, content |-> content,
     ok |-> (result = None)]

\* A loop that takes value[0] without looking at len(value).
multi_valued_never(value) == FALSE

\* Line 143: len(value) != 1.
multi_valued(value) == Len(value) # 1

\* Lines 139-147, one turn of the loop over options.items(): a key that is
\* no algorithm name is passed over; an algorithm key with several values
\* raises TypeError; otherwise check_hash reads the file.
LoopStep(p) ==
    LET options == parse_qs(src[p].fragment) IN
    /\ pc[p] = "loop"
    /\ IF idx[p] > Len(options)
       THEN /\ pc' = [pc EXCEPT ![p] = "checksum"]
            /\ UNCHANGED <<exc, idx, checks>>
       ELSE LET key == options[idx[p]][1]
                value == options[idx[p]][2]
            IN IF key \notin algorithms_available
               THEN /\ idx' = [idx EXCEPT ![p] = @ + 1]
                    /\ UNCHANGED <<pc, exc, checks>>
               ELSE IF multi_valued(value)
               THEN /\ exc' = [exc EXCEPT ![p] =
                                 Some(Exc("TypeError", "Expected 1 hash value", "install"))]
                    /\ pc' = [pc EXCEPT ![p] = "raised"]
                    /\ UNCHANGED <<idx, checks>>
               ELSE LET r == check_hash(fs[dldf[p]], value[1], key) IN
                    /\ checks' = [checks EXCEPT ![p] =
                           Append(@, Check("fragment", key, value[1], fs[dldf[p]], r))]
                    /\ exc' = [exc EXCEPT ![p] = r]
                    /\ pc' = [pc EXCEPT ![p] = IF r = None THEN "loop" ELSE "raised"]
                    /\ idx' = [idx EXCEPT ![p] = @ + 1]
    /\ UNCHANGED <<caller, src, cksum, htype, dldf, url, data, linked, caught,
                   extracted, opened, openerSeen, openerWas, overlapped, dlExc,
                   worldVars, pureVars>>

\* An install that never looks at the checksum argument.
checksum_given_never(checksum) == FALSE

\* Line 148: if checksum.  None and the empty string are false.
checksum_given(checksum) == checksum \notin {None, Some("")}

\* Line 149 without its hash_type argument: sha1 whatever the caller says.
explicit_check_default_alg(content, checksum, hash_type) ==
    check_hash(content, checksum, "sha1")

\* Line 149: check_hash(dld_file, checksum, hash_type).
explicit_check(content, checksum, hash_type) ==
    check_hash(content, checksum, hash_type)

\* Lines 148-149.
ExplicitCheck(p) ==
    /\ pc[p] = "checksum"
    /\ IF checksum_given(cksum[p])
       THEN LET r == explicit_check(fs[dldf[p]], cksum[p][1], htype[p]) IN
            /\ checks' = [checks EXCEPT ![p] =
                   Append(@, Check("explicit", htype[p], cksum[p][1], fs[dldf[p]], r))]
            /\ exc' = [exc EXCEPT ![p] = r]
            /\ pc' = [pc EXCEPT ![p] = IF r = None THEN "extract" ELSE "raised"]
       ELSE /\ pc' = [pc EXCEPT ![p] = "extract"]
            /\ UNCHANGED <<exc, checks>>
    /\ UNCHANGED <<caller, src, cksum, htype, dldf, url, data, linked, caught,
                   idx, extracted, opened, openerSeen, openerWas, overlapped,
                   dlExc, worldVars, pureVars>>

\* Line 150: extract(dld_file, dest) is invoked on what the file holds now.
Extract(p) ==
    /\ pc[p] = "extract"
    /\ extracted' = [extracted EXCEPT ![p] = Some(fs[dldf[p]])]
    /\ pc' = [pc EXCEPT ![p] = "returned"]
    /\ UNCHANGED <<caller, src, cksum, htype, dldf, url, data, linked, caught,
                   exc, idx, checks, opened, openerSeen, openerWas, overlapped,
                   dlExc, worldVars, pureVars>>

\* The call is over: its result or its exception is with the caller, and
\* nothing of the call is left but what it did to the process and the disk.
Finish(p) ==
    /\ pc[p] \in {"returned", "raised"}
    /\ pc' = [pc EXCEPT ![p] = "idle"]
    /\ caller' = [caller EXCEPT ![p] = "direct"]
    /\ src' = [src EXCEPT ![p] = NoUrl]
    /\ cksum' = [cksum EXCEPT ![p] = None]
    /\ htype' = [htype EXCEPT ![p] = "sha1"]
    /\ dldf' = [dldf EXCEPT ![p] = ""]
    /\ url' = [url EXCEPT ![p] = NoUrl]
    /\ data' = [data EXCEPT ![p] = Absent]
    /\ linked' = [linked EXCEPT ![p] = FALSE]
    /\ caught' = [caught EXCEPT ![p] = None]
    /\ exc' = [exc EXCEPT ![p] = None]
    /\ idx' = [idx EXCEPT ![p] = 1]
    /\ checks' = [checks EXCEPT ![p] = <<>>]
    /\ extracted' = [extracted EXCEPT ![p] = None]
    /\ opened' = [opened EXCEPT ![p] = None]
    /\ openerSeen' = [openerSeen EXCEPT ![p] = None]
    /\ openerWas' = [openerWas EXCEPT ![p] = None]
    /\ overlapped' = [overlapped EXCEPT ![p] = {}]
    /\ dlExc' = [dlExc EXCEPT ![p] = None]
    /\ UNCHANGED <<worldVars, pureVars>>

\* A dld_file that does not depend on the source: one name for all.
dld_file_fixed_name(path) == "x.tgz"

\* Line 132: os.path.join(dest_dir, os.path.basename(url_parts.path)).  The
\* files of the one directory $CHARM_DIR/fetched are named by basename.
dld_file(path) == basename(path)

\* Lines 128-134: the directory is made when it is missing, and download
\* is called with dld_file.
Install(p, source, checksum, hash_type) ==
    /\ pc[p] = "idle"
    /\ BeginCall(p, "install", source, dld_file(source.path), checksum, hash_type)
    /\ dest_dir' = TRUE
    /\ UNCHANGED <<opener, fs, pureVars>>

\* download called on its own, with a dest in the same directory.
Download(p, source, dest) ==
    /\ pc[p] = "idle"
    /\ BeginCall(p, "direct", source, dest, None, "sha1")
    /\ UNCHANGED <<opener, fs, dest_dir, pureVars>>

(***************************************************************************)
(* can_handle(source)                                                      *)
(***************************************************************************)
PyStr(s) == [type |-> "str", repr |-> s]
PyBool(b) == [type |-> "bool", repr |-> IF b THEN "True" ELSE "False"]

\* bool(v): False and the empty string are false, every other value true.
bool(v) == IF v.type = "bool" THEN v.repr = "True" ELSE v.repr # ""

\* BaseFetchHandler.parse_url is urlparse; base_url drops the fragment.
parse_url(source) == source
base_url(source) == [source EXCEPT !.fragment = <<>>]

\* get_archive_handler: a handler for a path the archive collaborator
\* recognizes as an archive, None for any other.
ArchiveNames == {"x.tgz", "y.tgz"}
get_archive_handler(archive) ==
    IF basename(archive.path) \in ArchiveNames THEN Some("extract_tarfile") ELSE None

\* Lines 63-71.
can_handle(source) ==
    LET url_parts == parse_url(source) IN
    IF url_parts.proto \notin {"http", "https", "ftp", "file"}
    THEN PyStr("Wrong source type")
    ELSE IF get_archive_handler(base_url(source)) # None
         THEN PyBool(TRUE)
         ELSE PyBool(FALSE)

(***************************************************************************)
(* The calls that are made.                                                *)
(***************************************************************************)
FragmentPairs ==
    {<<k, v>> : k \in {"sha1", "md5"}, v \in {"A", "B", ""}} \cup {<<"crc32", "A">>}
Fragments == UNION {[1..k -> FragmentPairs] : k \in 0..MaxPairs}
InstallSources == {Url("http", <<"u">>, PathAX, f) : f \in Fragments}
Checksums == {None, Some(""), Some("A"), Some("B")}
HashTypes == {"sha1", "crc32"}

\* Every short network location, and user@host, user:password@host and a
\* user name that holds an '@' itself.
UserHost == <<"u", "@", "u">>
UserPassHost == <<"u", ":", "u", "@", "u">>
UserAtHost == <<"u", "@", "u", "@", "u">>
DownloadNetlocs == StringsUpTo(MaxNetlocLen) \cup {UserHost, UserPassHost, UserAtHost}
DownloadSources ==
    {Url(pr, n, PathAX, <<>>) :
        pr \in {"http", "https", "ftp", "file"}, n \in DownloadNetlocs}

\* The dest download is given when it is called on its own.
DownloadDests == {"x.tgz"}

ConcurrentSources == {Url("http", <<"u">>, q, << <<"sha1", Body(q)>> >>) : q \in Paths}

Schemes == {"http", "https", "ftp", "file", "foo", "git", ""}
ProbeSources ==
    {Url(pr, n, q, <<>>) :
        pr \in Schemes, n \in StringsUpTo(2), q \in Paths \cup {PathAZ}}

StartInstall(p) ==
    /\ pc[p] = "idle"
    /\ \E s \in InstallSources, c \in Checksums, h \in HashTypes : Install(p, s, c, h)

StartDownload(p) ==
    /\ pc[p] = "idle"
    /\ \E s \in DownloadSources, d \in DownloadDests : Download(p, s, d)

StartConcurrentInstall(p) ==
    /\ pc[p] = "idle"
    /\ \E s \in ConcurrentSources : Install(p, s, None, "sha1")

CanHandle ==
    /\ \E s \in ProbeSources :
         /\ probeSrc' = s
         /\ probeRes' = Some(can_handle(s))
    /\ UNCHANGED <<threadVars, worldVars, splitFn, splitArg, splitRes>>

SplitUser ==
    /\ \E h \in StringsUpTo(MaxHostLen) :
         /\ splitFn' = "splituser"
         /\ splitArg' = h
         /\ splitRes' = splituser(h)
    /\ UNCHANGED <<threadVars, worldVars, probeSrc, probeRes>>

SplitPasswd ==
    /\ \E u \in StringsUpTo(MaxHostLen) :
         /\ splitFn' = "splitpasswd"
         /\ splitArg' = u
         /\ splitRes' = splitpasswd(u)
    /\ UNCHANGED <<threadVars, worldVars, probeSrc, probeRes>>

(***************************************************************************)
(* Specifications.                                                         *)
(***************************************************************************)
\* One thread calls install, again and again.
Next ==
    \E p \in {"t1"} :
        \/ StartInstall(p)
        \/ DlParse(p)
        \/ UrlOpen(p)
        \/ OpenDest(p)
        \/ ReadBody(p)
        \/ WriteBody(p)
        \/ IsFile(p)
        \/ Unlink(p)
        \/ DownloadRaise(p)
        \/ DownloadReturn(p)
        \/ LoopStep(p)
        \/ ExplicitCheck(p)
        \/ Extract(p)
        \/ Finish(p)

Spec == Init /\ [][Next]_vars

\* One thread calls download, again and again.
NextDownload ==
    \E p \in {"t1"} :
        \/ StartDownload(p)
        \/ DlParse(p)
        \/ UrlOpen(p)
        \/ OpenDest(p)
        \/ ReadBody(p)
        \/ WriteBody(p)
        \/ IsFile(p)
        \/ Unlink(p)
        \/ DownloadRaise(p)
        \/ DownloadReturn(p)
        \/ Finish(p)

SpecDownload == Init /\ [][NextDownload]_vars

\* Two threads call install, with nothing to keep them apart.
NextConcurrent ==
    \E p \in Procs :
        \/ StartConcurrentInstall(p)
        \/ DlParse(p)
        \/ UrlOpen(p)
        \/ OpenDest(p)
        \/ ReadBody(p)
        \/ WriteBody(p)
        \/ IsFile(p)
        \/ Unlink(p)
        \/ DownloadRaise(p)
        \/ DownloadReturn(p)
        \/ LoopStep(p)
        \/ ExplicitCheck(p)
        \/ Extract(p)
        \/ Finish(p)

SpecConcurrent == Init /\ [][NextConcurrent]_vars

\* can_handle is asked about one source after another.
SpecCanHandle == Init /\ [][CanHandle]_vars

\* splituser and splitpasswd are applied to one string after another.
NextSplit == SplitUser \/ SplitPasswd

SpecSplit == Init /\ [][NextSplit]_vars


(***************************************************************************)
(* Properties.                                                             *)
(***************************************************************************)
HasChar(str, c) == \E i \in 1..Len(str) : str[i] = c

\* The positions of a fragment that give key a non-blank value.
ValuePositions(fragment, key) ==
    {i \in 1..Len(fragment) : fragment[i][1] = key /\ fragment[i][2] # ""}

\* The checks of a call that came from the fragment / from the argument.
ChecksOf(p, origin) ==
    {j \in 1..Len(checks[p]) : checks[p][j].origin = origin}

ChecksumSupplied(p) == cksum[p] # None /\ cksum[p] # Some("")

\* C1: extract is invoked only after every applicable digest check has
\* passed: one check for each fragment key that is a supported algorithm
\* name (with the value the fragment gives it), and one more for the
\* checksum argument with hash_type when a checksum is supplied; a call in
\* which any check failed has raised and never reaches extract.
C1_ExtractOnlyAfterAllChecksPass ==
    \A p \in Procs :
        /\ (pc[p] = "extract" \/ extracted[p] # None) =>
              /\ \A i \in 1..Len(src[p].fragment) :
                    LET key == src[p].fragment[i][1]
                        value == src[p].fragment[i][2]
                    IN (key \in algorithms_available /\ value # "") =>
                          \E j \in ChecksOf(p, "fragment") :
                              /\ checks[p][j].alg = key
                              /\ checks[p][j].expected = value
                              /\ checks[p][j].ok
              /\ ChecksumSupplied(p) =>
                    \E j \in ChecksOf(p, "explicit") :
                        /\ checks[p][j].alg = htype[p]
                        /\ checks[p][j].expected = cksum[p][1]
                        /\ checks[p][j].ok
              /\ \A j \in 1..Len(checks[p]) : checks[p][j].ok
        /\ (\E j \in 1..Len(checks[p]) : ~checks[p][j].ok) =>
              /\ pc[p] = "raised"
              /\ exc[p] # None
              /\ extracted[p] = None

\* C1 witness: extract was invoked after a fragment check and the check of
\* the checksum argument both ran and passed.
C1_Witness ==
    \E p \in Procs :
        /\ extracted[p] # None
        /\ ChecksOf(p, "fragment") # {}
        /\ ChecksOf(p, "explicit") # {}

\* An exception raised in the write phase of download is leaving download.
WritePhaseErrorLeaves(p) ==
    /\ pc[p] = "dl_raised"
    /\ \/ caught[p] # None
       \/ exc[p] # None /\ exc[p][1].site \in {"open", "read", "write"}

\* C2 (as claimed): whenever an exception is raised in the write phase of
\* download, no file is at dest when the error leaves download, and the
\* exception that leaves is the one that was raised.
C2_NoFileAndSameException ==
    \A p \in Procs :
        WritePhaseErrorLeaves(p) =>
            /\ fs[dldf[p]] = Absent
            /\ exc[p] # None
            /\ exc[p][1].site \in {"open", "read", "write"}
            /\ caught[p] # None => exc[p] = caught[p]

\* C2 (amended): when an Exception is raised in the write phase, either no
\* file is at dest and that same exception leaves download, or os.unlink
\* itself raised: then its OSError leaves download and the file is still
\* at dest.  An exception that is no Exception (KeyboardInterrupt) leaves
\* download as it is, with the file that was opened still at dest.
C2_NoFileUnlessUnlinkRaises ==
    \A p \in Procs :
        WritePhaseErrorLeaves(p) =>
            /\ exc[p] # None
            /\ IF caught[p] = None
               THEN /\ exc[p][1].type = "KeyboardInterrupt"
                    /\ fs[dldf[p]] # Absent
               ELSE IF exc[p][1].site = "unlink"
               THEN /\ exc[p][1].type = "OSError"
                    /\ exc[p] # caught[p]
                    /\ fs[dldf[p]] # Absent
               ELSE /\ exc[p] = caught[p]
                    /\ caught[p][1].type # "KeyboardInterrupt"
                    /\ fs[dldf[p]] = Absent

\* C2 witness: the write failed part-way, the partial file was unlinked and
\* the write's exception is leaving download.
C2_Witness ==
    \E p \in Procs :
        /\ pc[p] = "dl_raised"
        /\ caught[p] # None
        /\ caught[p][1].site = "write"
        /\ exc[p] = caught[p]
        /\ fs[dldf[p]] = Absent

\* C3: a URLError or OSError that leaves the download step reaches
\* install's caller as UnhandledSource carrying the same reason, never in
\* its own type, and neither a digest check nor extract follows it.
C3_DownloadErrorsBecomeUnhandledSource ==
    \A p \in Procs :
        (/\ caller[p] = "install"
         /\ dlExc[p] # None
         /\ dlExc[p][1].type \in {"URLError", "OSError"}) =>
            /\ pc[p] = "raised"
            /\ exc[p] = Some(Exc("UnhandledSource", dlExc[p][1].reason, "install"))
            /\ checks[p] = <<>>
            /\ extracted[p] = None

\* C3 witness: an OSError left download and install raised UnhandledSource.
C3_Witness ==
    \E p \in Procs :
        /\ caller[p] = "install"
        /\ pc[p] = "raised"
        /\ dlExc[p] # None
        /\ dlExc[p][1].type = "OSError"
        /\ exc[p][1].type = "UnhandledSource"

\* The supported algorithm keys a fragment gives more than one value.
MultiKeys(fragment) ==
    {k \in algorithms_available : Cardinality(ValuePositions(fragment, k)) > 1}

\* Where the first of them is first written.
FirstMultiPos(fragment) ==
    SetMin({SetMin(ValuePositions(fragment, k)) : k \in MultiKeys(fragment)})

\* The supported algorithm keys first written before that.
EarlierKeys(fragment) ==
    {k \in algorithms_available :
        /\ ValuePositions(fragment, k) # {}
        /\ SetMin(ValuePositions(fragment, k)) < FirstMultiPos(fragment)}

\* An install whose download step succeeded and that is over.
InstallOver(p) ==
    /\ caller[p] = "install"
    /\ pc[p] \in {"returned", "raised"}
    /\ dlExc[p] = None

\* C4 (as claimed): a fragment that gives a supported algorithm key more
\* than one value makes install fail with the multi-value TypeError before
\* any digest is computed, whatever else the fragment holds.
C4_MultiValueErrorBeforeAnyDigest ==
    \A p \in Procs :
        (InstallOver(p) /\ MultiKeys(src[p].fragment) # {}) =>
            /\ exc[p] # None
            /\ exc[p][1].type = "TypeError"
            /\ checks[p] = <<>>

\* C4 (amended): such a fragment makes install fail before extract.  Only
\* the supported keys written before the first multi-valued key are
\* checked.  When all of them pass, each was checked once and the error is
\* the multi-value TypeError; when one fails, the error is that check's.
C4_MultiValueErrorAfterEarlierKeys ==
    \A p \in Procs :
        (InstallOver(p) /\ MultiKeys(src[p].fragment) # {}) =>
            /\ extracted[p] = None
            /\ exc[p] # None
            /\ \A j \in 1..Len(checks[p]) :
                  /\ checks[p][j].origin = "fragment"
                  /\ checks[p][j].alg \in EarlierKeys(src[p].fragment)
            /\ IF \A j \in 1..Len(checks[p]) : checks[p][j].ok
               THEN /\ exc[p][1].type = "TypeError"
                    /\ {checks[p][j].alg : j \in 1..Len(checks[p])}
                          = EarlierKeys(src[p].fragment)
                    /\ Len(checks[p]) = Cardinality(EarlierKeys(src[p].fragment))
               ELSE exc[p][1].type = "IntegrityError"

\* C4 witness: the multi-value TypeError was raised after the digest of an
\* earlier key had been computed.
C4_Witness ==
    \E p \in Procs :
        /\ InstallOver(p)
        /\ exc[p] # None
        /\ exc[p][1].type = "TypeError"
        /\ checks[p] # <<>>

\* C5: for a URL whose scheme is outside {http, https, ftp, file},
\* can_handle returns a boolean, and one a caller takes for false.
C5_WrongSchemeIsFalse ==
    (probeRes # None /\ probeSrc.proto \notin {"http", "https", "ftp", "file"}) =>
        /\ probeRes[1].type = "bool"
        /\ ~bool(probeRes[1])

\* C6: splituser splits at the last '@': the userinfo, an '@' and the bare
\* host make up the input again and the bare host holds no '@'; with no
\* '@' the credentials are None and the host is the input.  splitpasswd
\* splits at the first ':': the user name, a ':' and the password make up
\* the input again and the user name holds no ':'; with no ':' the
\* password is None and the user name is the input.
C6_SplitDecomposes ==
    /\ splitFn = "splituser" =>
          IF HasChar(splitArg, "@")
          THEN /\ splitRes[1] # None
               /\ splitRes[1][1] \o <<"@">> \o splitRes[2][1] = splitArg
               /\ ~HasChar(splitRes[2][1], "@")
          ELSE /\ splitRes[1] = None
               /\ splitRes[2] = Some(splitArg)
    /\ splitFn = "splitpasswd" =>
          IF HasChar(splitArg, ":")
          THEN /\ splitRes[2] # None
               /\ splitRes[1][1] \o <<":">> \o splitRes[2][1] = splitArg
               /\ ~HasChar(splitRes[1][1], ":")
          ELSE /\ splitRes[2] = None
               /\ splitRes[1] = Some(splitArg)

\* C6 witness: splituser was applied to a string with two '@', and the
\* userinfo it returned holds the first of them.
C6_Witness ==
    /\ splitFn = "splituser"
    /\ Cardinality({i \in 1..Len(splitArg) : splitArg[i] = "@"}) = 2
    /\ splitRes[1] # None
    /\ HasChar(splitRes[1][1], "@")


\* The position of the last '@' of a network location that has one, and of
\* the first ':' of a userinfo that has one.
LastAt(netloc) ==
    CHOOSE k \in 1..Len(netloc) :
        netloc[k] = "@" /\ \A j \in (k + 1)..Len(netloc) : netloc[j] # "@"
FirstColon(userinfo) ==
    CHOOSE k \in 1..Len(userinfo) :
        userinfo[k] = ":" /\ \A j \in 1..(k - 1) : userinfo[j] # ":"

HasHttpUserinfo(source) ==
    source.proto \in {"http", "https"} /\ HasChar(source.netloc, "@")

\* The source without its userinfo.
CredentialFree(source) ==
    [source EXCEPT !.netloc = SubSeq(source.netloc, LastAt(source.netloc) + 1,
                                     Len(source.netloc))]

\* The Basic-Auth opener for the credentials a source holds.
OpenerFor(source) ==
    LET userinfo == SubSeq(source.netloc, 1, LastAt(source.netloc) - 1) IN
    [uri |-> CredentialFree(source),
     user |-> IF HasChar(userinfo, ":")
              THEN Some(SubSeq(userinfo, 1, FirstColon(userinfo) - 1))
              ELSE Some(userinfo),
     passwd |-> IF HasChar(userinfo, ":")
                THEN Some(SubSeq(userinfo, FirstColon(userinfo) + 1, Len(userinfo)))
                ELSE None]

\* C7: when the scheme is http or https and the network location holds a
\* userinfo, the URL handed to urlopen is the source without the userinfo
\* and, when urlopen runs, the installed opener holds the parsed user name
\* and password for that URL; in every other case the source is opened
\* unchanged and the installed opener is the one the call found.
C7_OpenedUrlAndOpener ==
    \A p \in Procs :
        opened[p] # None =>
            IF HasHttpUserinfo(src[p])
            THEN /\ opened[p] = Some(CredentialFree(src[p]))
                 /\ openerSeen[p] = Some(OpenerFor(src[p]))
            ELSE /\ opened[p] = Some(src[p])
                 /\ openerSeen[p] = openerWas[p]

\* C7 witness: a source with user name and password was opened without
\* them, under an opener that holds both.
C7_Witness ==
    \E p \in Procs :
        /\ opened[p] # None
        /\ HasHttpUserinfo(src[p])
        /\ opened[p] # Some(src[p])
        /\ openerSeen[p] # None
        /\ openerSeen[p][1].passwd # None

\* A call that names an unsupported hash algorithm: with a supplied
\* checksum, through hash_type; or through a fragment key that has a value.
NamesUnsupported(p) ==
    \/ ChecksumSupplied(p) /\ htype[p] \in UnsupportedAlgorithms
    \/ \E k \in UnsupportedAlgorithms : ValuePositions(src[p].fragment, k) # {}

\* C8 (as claimed): when a supplied checksum comes with a hash_type the
\* hashing collaborator does not support, or the fragment gives a value to
\* a key that names an unsupported hash algorithm, install raises and
\* extract is not invoked.
C8_UnsupportedNeverSkipped ==
    \A p \in Procs :
        (caller[p] = "install" /\ NamesUnsupported(p)) =>
            /\ pc[p] # "extract"
            /\ extracted[p] = None

\* C8 (amended): when a supplied checksum comes with an unsupported
\* hash_type, extract is never invoked, and the check of the checksum
\* argument, once reached, raises the unsupported-algorithm error.  A
\* fragment key that is no supported algorithm name is passed over: no
\* check is made for it and it raises nothing.
C8_UnsupportedHashTypeRaises ==
    \A p \in Procs :
        /\ (caller[p] = "install" /\ ChecksumSupplied(p)
              /\ htype[p] \notin algorithms_available) =>
              /\ pc[p] # "extract"
              /\ extracted[p] = None
              /\ ChecksOf(p, "explicit") # {} =>
                    /\ pc[p] = "raised"
                    /\ exc[p] # None
                    /\ exc[p][1].type = "UnsupportedAlgorithm"
        /\ \A j \in ChecksOf(p, "fragment") : checks[p][j].alg \in algorithms_available
        /\ (exc[p] # None /\ exc[p][1].type = "UnsupportedAlgorithm") =>
              /\ ChecksOf(p, "explicit") # {}
              /\ exc[p][1].reason = htype[p]

\* C8 witness: the check of a supplied checksum raised the
\* unsupported-algorithm error for hash_type, in a call whose fragment also
\* names an unsupported algorithm.
C8_Witness ==
    \E p \in Procs :
        /\ pc[p] = "raised"
        /\ exc[p] # None
        /\ exc[p][1].type = "UnsupportedAlgorithm"
        /\ \E k \in UnsupportedAlgorithms : ValuePositions(src[p].fragment, k) # {}

\* C9: the installed opener is that of the most recent download call whose
\* source held http or https userinfo (none before the first such call):
\* once a call is past its opener branch this holds until the next call,
\* whether the call returns or fails and whatever calls without userinfo
\* come after it.
C9_OpenerIsLastWriters ==
    (\A p \in Procs : pc[p] # "dl_parse") =>
        opener = IF lastAuth = None THEN None ELSE Some(OpenerFor(lastAuth[1]))

\* C9 witness: a call without http or https userinfo has failed, and the
\* opener of an earlier call is still installed.
C9_Witness ==
    \E p \in Procs :
        /\ pc[p] = "raised"
        /\ ~HasHttpUserinfo(src[p])
        /\ HasChar(src[p].netloc, "@")
        /\ opener # None

\* An install that extracted something else than a check of its own read.
ExtractedUnverified(p) ==
    /\ extracted[p] # None
    /\ checks[p] # <<>>
    /\ \A j \in 1..Len(checks[p]) : checks[p][j].ok
    /\ \E j \in 1..Len(checks[p]) : checks[p][j].content # extracted[p][1]

\* C10: an install extracts bytes its digest checks did not read only if a
\* call fetching the same basename was in flight during it; alone, or with
\* calls that fetch other basenames, it extracts what it verified.
C10_UnverifiedOnlyWithSameBasename ==
    \A p \in Procs :
        ExtractedUnverified(p) => basename(src[p].path) \in overlapped[p]

\* C10 witness: an install's checks passed, and it extracted something
\* else, while another install fetched the same basename.
C10_Witness ==
    \E p \in Procs :
        /\ ExtractedUnverified(p)
        /\ basename(src[p].path) \in overlapped[p]

====
